---- MODULE Spec2Model ----
(***************************************************************************)
(* The azure-chroot builder (builder/azure/chroot/builder.go):             *)
(* Builder.Prepare resolves and validates the configuration,               *)
(* buildsteps turns the resolved configuration into the ordered step list, *)
(* Builder.Run runs the list through the step runner and assembles the     *)
(* artifact.                                                               *)
(*                                                                         *)
(* Strings the code parses (source, image_resource_id) are sequences of    *)
(* tokens: a token is either a separator (":" or "/") or a maximal run of  *)
(* the other characters. The empty string is the empty sequence. Strings   *)
(* the code only compares or copies are TLA+ strings.                      *)
(***************************************************************************)
EXTENDS Integers, Sequences, FiniteSets, TLC

VARIABLES
    pc,          \* position of the builder: new, rejected, prepared, running, cleanup, done
    config,      \* b.config
    mdKeys,      \* md.Keys: the keys the decoded input supplied
    prepErrs,    \* the error Prepare returned: the aggregate's Errors, <<>> for nil
    prepWarns,   \* the warnings Prepare returned
    steps,       \* b.runner's step list, as buildsteps returned it
    stateBag,    \* the multistep state bag: the keys put, as a set
    runLog,      \* indices of the steps whose Run was invoked, in order
    cleanupLog,  \* indices of the steps whose Cleanup was invoked, in order
    cloud,       \* transient cloud resources: created and deleted sets
    host,        \* host-side cleanups attempted (step kinds)
    result,      \* what Run returned: [artifact, err]
    env,         \* what Run found on the host: runtime.GOOS, the client, the metadata
    calls        \* the collaborators Run called, in order

vars == <<pc, config, mdKeys, prepErrs, prepWarns, steps, stateBag, runLog,
          cleanupLog, cloud, host, result, env, calls>>

----------------------------------------------------------------------------
(* Bounds of the model *)

\* os_disk_size_gb is drawn from 0..MaxSizeGB
MaxSizeGB == 1

----------------------------------------------------------------------------
(* Strings as token sequences *)

Separators == {":", "/"}

\* The ASCII capital letters and their lower-case forms
LowerCase ==
    "A" :> "a" @@ "B" :> "b" @@ "C" :> "c" @@ "D" :> "d" @@ "E" :> "e"
    @@ "F" :> "f" @@ "G" :> "g" @@ "H" :> "h" @@ "I" :> "i" @@ "J" :> "j"
    @@ "K" :> "k" @@ "L" :> "l" @@ "M" :> "m" @@ "N" :> "n" @@ "O" :> "o"
    @@ "P" :> "p" @@ "Q" :> "q" @@ "R" :> "r" @@ "S" :> "s" @@ "T" :> "t"
    @@ "U" :> "u" @@ "V" :> "v" @@ "W" :> "w" @@ "X" :> "x" @@ "Y" :> "y"
    @@ "Z" :> "z"

\* The lower-case form of one character
LowerChar(ch) == IF ch \in DOMAIN LowerCase THEN LowerCase[ch] ELSE ch

\* The first n characters of the token t, each folded to lower case
RECURSIVE LowerPrefix(_, _)
LowerPrefix(t, n) ==
    IF n = 0 THEN ""
    ELSE LowerPrefix(t, n - 1) \o LowerChar(SubSeq(t, n, n))

\* The case folding of strings.EqualFold on one token: every letter is folded
Lower(t) == LowerPrefix(t, Len(t))

\* strings.EqualFold on token sequences
EqualFold(a, b) ==
    /\ Len(a) = Len(b)
    /\ \A n \in 1..Len(a) : Len(a[n]) = Len(b[n]) /\ Lower(a[n]) = Lower(b[n])

\* s[from..to], the empty sequence when from > to
Slice(s, from, to) == [n \in 1..(to - from + 1) |-> s[from + n - 1]]

\* client.ParsePlatformImageURN: publisher:offer:sku:version, each part a
\* non-empty run of word characters
ParsePlatformImageURN(urn) ==
    IF /\ Len(urn) = 7
       /\ \A n \in {2, 4, 6} : urn[n] = ":"
       /\ \A n \in {1, 3, 5, 7} : urn[n] \notin Separators
    THEN [ok |-> TRUE,
          image |-> [Publisher |-> urn[1], Offer |-> urn[3],
                     Sku |-> urn[5], Version |-> urn[7]]]
    ELSE [ok |-> FALSE,
          image |-> [Publisher |-> "", Offer |-> "", Sku |-> "", Version |-> ""]]

\* Positions of a keyword of the resource id pattern: the token kw (compared
\* case-insensitively, as (?i) does) with a "/" right after it
KeywordAt(id, kw) ==
    {n \in 1..(Len(id) - 1) :
        id[n + 1] = "/" /\ Len(id[n]) = Len(kw) /\ Lower(id[n]) = kw}

SlashAt(id) == {n \in 1..Len(id) : id[n] = "/"}

\* The places where (?i)subscriptions/(.+)/resourceGroups/(.+)/providers/(.+?)/(.+?)/(.+)
\* matches id: i, j, k the positions of the three keywords, p and q the
\* positions of the slashes that end the provider and the resource type
ResourceIDMatches(id) ==
    {m \in [i : KeywordAt(id, "subscriptions"), j : KeywordAt(id, "resourcegroups"),
            k : KeywordAt(id, "providers"), p : SlashAt(id), q : SlashAt(id)] :
        /\ m.i + 4 <= m.j
        /\ id[m.j - 1] = "/"
        /\ m.j + 4 <= m.k
        /\ id[m.k - 1] = "/"
        /\ m.k + 3 <= m.p
        /\ m.p + 2 <= m.q
        /\ m.q < Len(id)}

\* The regexp engine's preference between two matches: the leftmost start, then
\* the two greedy groups as long as possible, then the two lazy groups as short
\* as possible
Preferred(m, o) ==
    \/ m.i < o.i
    \/ /\ m.i = o.i
       /\ \/ m.j > o.j
          \/ /\ m.j = o.j
             /\ \/ m.k > o.k
                \/ /\ m.k = o.k
                   /\ \/ m.p < o.p
                      \/ m.p = o.p /\ m.q <= o.q

\* The Resource of the match the engine returns among all, none when all is empty
ResourceOf(id, all) ==
    IF all = {}
    THEN [ok |-> FALSE, Provider |-> <<>>, ResourceType |-> <<>>]
    ELSE LET m == CHOOSE x \in all : \A o \in all : Preferred(x, o)
         IN  [ok |-> TRUE,
              Provider |-> Slice(id, m.k + 2, m.p - 1),
              ResourceType |-> Slice(id, m.p + 1, m.q - 1)]

\* azure.ParseResourceID
ParseResourceID(id) ==
    CHOOSE r \in {ResourceOf(id, all) : all \in {ResourceIDMatches(id)}} : TRUE

----------------------------------------------------------------------------
(* The configuration *)

sourcePlatformImage == "PlatformImage"
sourceDisk == "Disk"

\* SharedImageGalleryDestination, zero value
ZeroDestination ==
    [ResourceGroup |-> "", GalleryName |-> "", ImageName |-> "", ImageVersion |-> "",
     TargetRegions |-> <<>>]

\* A Go slice of strings: nil, or a list that may be empty
NilSlice == [isNil |-> TRUE, items |-> <<>>]
SliceOf(items) == [isNil |-> FALSE, items |-> items]

\* ClientConfig, zero value (the field Prepare's outcome depends on)
ZeroClientConfig == [CloudEnvironmentName |-> ""]

\* Config, zero value (the fields the builder reads)
ZeroConfig ==
    [ClientConfig |-> ZeroClientConfig,
     FromScratch |-> FALSE,
     Source |-> <<>>,
     sourceType |-> "",
     CommandWrapper |-> "",
     PreMountCommands |-> <<>>,
     MountOptions |-> <<>>,
     MountPartition |-> "",
     MountPath |-> "",
     PostMountCommands |-> <<>>,
     ChrootMounts |-> <<>>,
     CopyFiles |-> NilSlice,
     OSDiskSizeGB |-> 0,
     OSDiskStorageAccountType |-> "",
     OSDiskCacheType |-> "",
     ImageHyperVGeneration |-> "",
     TemporaryOSDiskID |-> <<>>,
     TemporaryOSDiskSnapshotID |-> <<>>,
     SkipCleanup |-> FALSE,
     ImageResourceID |-> <<>>,
     SharedImageGalleryDestination |-> ZeroDestination]

BuilderID == "azure.chroot"

----------------------------------------------------------------------------
(* Inputs *)

UrnLatest == <<"Canonical", ":", "UbuntuServer", ":", "18.04-LTS", ":", "latest">>
UrnLatestCaps == <<"Canonical", ":", "UbuntuServer", ":", "18.04-LTS", ":", "lAtEsT">>
UrnPinned == <<"Canonical", ":", "UbuntuServer", ":", "18.04-LTS", ":", "18.04.201912180">>

ResourceID(provider, type, name) ==
    <<"/", "subscriptions", "/", "x", "/", "resourceGroups", "/", "y", "/",
      "providers", "/", provider, "/", type, "/", name>>

DiskID == ResourceID("Microsoft.Compute", "disks", "z")
DiskIDFolded == ResourceID("MICROSOFT.compute", "DISKS", "z")
ImageID == ResourceID("Microsoft.Compute", "images", "img")
NotAValidThing == <<"not-a-valid-thing">>

Sources ==
    {<<>>, UrnLatest, UrnLatestCaps, UrnPinned, DiskID, DiskIDFolded, ImageID,
     NotAValidThing}

ImageResourceIDs == {<<>>, ImageID, DiskID}

ValidDestination ==
    [ResourceGroup |-> "rg", GalleryName |-> "gallery", ImageName |-> "image",
     ImageVersion |-> "1.0.0", TargetRegions |-> <<>>]

\* The same destination, replicated to a region
RegionalDestination == [ValidDestination EXCEPT !.TargetRegions = <<"westus2">>]

\* What the shared_image_destination key holds when it is supplied
Destinations ==
    {ValidDestination, [ValidDestination EXCEPT !.ImageVersion = "latest"],
     ZeroDestination, RegionalDestination}

UserDiskID == ResourceID("Microsoft.Compute", "disks", "mytemp")
UserSnapshotID == ResourceID("Microsoft.Compute", "snapshots", "mysnap")

\* The inputs that leave the three enumerated fields, the temporary ids and
\* skip_cleanup unset and give a disk size and pre-mount commands; the cloud
\* environment, copy_files and target_regions vary on these, one at a time
PlainInput(raw) ==
    /\ ~raw.SkipCleanup
    /\ raw.OSDiskSizeGB = 1
    /\ raw.PreMountCommands # <<>>
    /\ raw.OSDiskStorageAccountType = ""
    /\ raw.OSDiskCacheType = ""
    /\ raw.ImageHyperVGeneration = ""
    /\ raw.TemporaryOSDiskID = <<>>
    /\ raw.TemporaryOSDiskSnapshotID = <<>>

\* The fields of an input that differ from the common case
Deviations(raw) ==
    (IF raw.CloudEnvironmentName # "" THEN {"cloud_environment_name"} ELSE {})
    \cup (IF raw.CopyFiles # NilSlice THEN {"copy_files"} ELSE {})
    \cup (IF raw.SharedImageGalleryDestination = RegionalDestination
          THEN {"target_regions"} ELSE {})

\* The raw inputs Prepare decodes: the keys of the template and whether
\* shared_image_destination is among them (when it is not, the field holds
\* its zero value)
RawInputs ==
    {raw \in
        [CloudEnvironmentName : {"", "NoSuchCloud"},
         CopyFiles : {NilSlice, SliceOf(<<>>)},
         FromScratch : BOOLEAN,
         Source : Sources,
         PreMountCommands : {<<>>, <<"mkfs">>},
         OSDiskSizeGB : 0..MaxSizeGB,
         OSDiskStorageAccountType : {"", "Bogus_LRS"},
         OSDiskCacheType : {"", "Bogus"},
         ImageHyperVGeneration : {"", "V3"},
         TemporaryOSDiskID : {<<>>, UserDiskID},
         TemporaryOSDiskSnapshotID : {<<>>, UserSnapshotID},
         SkipCleanup : BOOLEAN,
         ImageResourceID : ImageResourceIDs,
         HasDestination : BOOLEAN,
         SharedImageGalleryDestination : Destinations] :
        /\ raw.HasDestination \/ raw.SharedImageGalleryDestination = ZeroDestination
        /\ Deviations(raw) = {} \/ (PlainInput(raw) /\ Cardinality(Deviations(raw)) = 1)}

\* What the `vm` template function finds on the host: the instance metadata
\* of an Azure VM, or nothing
VMMetadata ==
    {[ok |-> TRUE, subscription_id |-> "sub", resource_group |-> "vmrg"],
     [ok |-> FALSE, subscription_id |-> "", resource_group |-> ""]}

----------------------------------------------------------------------------
(* Builder.Prepare *)

\* An error is the pieces of its message
ErrSourceWithFromScratch == <<"source cannot be specified when building from_scratch">>
ErrSizeRequired == <<"os_disk_size_gb is required with from_scratch">>
ErrPreMountRequired == <<"pre_mount_commands is required with from_scratch">>
ErrSource == <<"source", "is not a valid platform image specifier, nor is it a disk resource ID">>
ErrCacheType == <<"os_disk_cache_type", "is not a valid value">>
ErrStorageAccountType == <<"os_disk_storage_account_type", "is not a valid value">>
ErrHyperVGeneration == <<"image_hyperv_generation", "is not a valid value">>
ErrImageResourceID == <<"image_resource_id", "is not a valid image resource id">>
ErrOutputRequired == <<"image_resource_id or shared_image_destination is required">>
ErrRenderDiskID == <<"unable to render temporary disk id">>
ErrRenderSnapshotID == <<"unable to render temporary snapshot id">>
ErrDecode == <<"decode error">>
ErrClientDefaultValues == <<"client config", "defaults cannot be set">>

PossibleCachingTypesValues == {"None", "ReadOnly", "ReadWrite"}
PossibleDiskStorageAccountTypesValues ==
    {"Premium_LRS", "StandardSSD_LRS", "Standard_LRS", "UltraSSD_LRS"}
PossibleHyperVGenerationValues == {"V1", "V2"}

checkDiskCacheType(s) == s \in PossibleCachingTypesValues
checkStorageAccountType(s) == s \in PossibleDiskStorageAccountTypesValues
checkHyperVGeneration(s) == s \in PossibleHyperVGenerationValues

\* packer.MultiErrorAppend(err, errs...) with err a *MultiError (nil is <<>>)
MultiErrorAppend(err, errs) == err \o errs

\* packer.MultiErrorAppend(err) with err a plain error and no more arguments: a
\* new aggregate that holds err alone
MultiErrorOf(err) == <<err>>

\* The image versions of the inputs that match ^[0-9]+\.[0-9]+\.[0-9]+$
SemanticVersions == {"1.0.0"}

\* The cloud environment names ClientConfig knows; the empty name is the default
KnownCloudEnvironments == {"", "Public", "USGovernment", "China", "Germany"}

\* ClientConfig.SetDefaultValues() returns no error
ClientSetDefaultValues(cc) == cc.CloudEnvironmentName \in KnownCloudEnvironments

\* SharedImageGalleryDestination.Validate(prefix): the warnings
ValidateWarnings(d, prefix) ==
    IF Len(d.TargetRegions) = 0
    THEN << <<prefix, ".target_regions is empty; image will only be available in the region of the gallery">> >>
    ELSE <<>>

\* SharedImageGalleryDestination.Validate(prefix): the errors, <<>> when the
\* destination is structurally valid
Validate(d, prefix) ==
    (IF d.ResourceGroup = "" THEN << <<prefix, ".resource_group is required">> >> ELSE <<>>)
    \o (IF d.GalleryName = "" THEN << <<prefix, ".gallery_name is required">> >> ELSE <<>>)
    \o (IF d.ImageName = "" THEN << <<prefix, ".image_name is required">> >> ELSE <<>>)
    \o (IF d.ImageVersion \notin SemanticVersions
        THEN << <<prefix, ".image_version should match ^[0-9]+.[0-9]+.[0-9]+$">> >>
        ELSE <<>>)

\* config.Decode: the raw keys onto the zero Config
Decode(raw) ==
    [ZeroConfig EXCEPT
        !.ClientConfig.CloudEnvironmentName = raw.CloudEnvironmentName,
        !.CopyFiles = raw.CopyFiles,
        !.FromScratch = raw.FromScratch,
        !.Source = raw.Source,
        !.PreMountCommands = raw.PreMountCommands,
        !.OSDiskSizeGB = raw.OSDiskSizeGB,
        !.OSDiskStorageAccountType = raw.OSDiskStorageAccountType,
        !.OSDiskCacheType = raw.OSDiskCacheType,
        !.ImageHyperVGeneration = raw.ImageHyperVGeneration,
        !.TemporaryOSDiskID = raw.TemporaryOSDiskID,
        !.TemporaryOSDiskSnapshotID = raw.TemporaryOSDiskSnapshotID,
        !.SkipCleanup = raw.SkipCleanup,
        !.ImageResourceID = raw.ImageResourceID,
        !.SharedImageGalleryDestination =
            raw.SharedImageGalleryDestination]

\* md.Keys, as far as Prepare reads it
DecodedKeys(raw) ==
    IF raw.HasDestination THEN {"shared_image_destination"} ELSE {}

\* interpolate.Render of the default id template: it calls `vm`, which fails
\* when the host has no instance metadata
RenderDefaultID(type, prefix, vm) ==
    IF vm.ok
    THEN [ok |-> TRUE,
          value |-> <<"/", "subscriptions", "/", vm.subscription_id, "/",
                      "resourceGroups", "/", vm.resource_group, "/", "providers", "/",
                      "Microsoft.Compute", "/", type, "/", prefix, "timestamp">>]
    ELSE [ok |-> FALSE, value |-> <<>>]

\* Prepare's working state: the config, the aggregate errs and the warnings
Acc(c, errs, warns) == [config |-> c, errs |-> errs, warns |-> warns]

\* Defaults of the fields that need no rendering
SetDefaults(c) ==
    [c EXCEPT
        !.ChrootMounts =
            IF Len(@) = 0
            THEN << <<"proc", "proc", "/proc">>,
                    <<"sysfs", "sysfs", "/sys">>,
                    <<"bind", "/dev", "/dev">>,
                    <<"devpts", "devpts", "/dev/pts">>,
                    <<"binfmt_misc", "binfmt_misc", "/proc/sys/fs/binfmt_misc">> >>
            ELSE @,
        !.CopyFiles =
            IF @.isNil /\ ~c.FromScratch THEN SliceOf(<<"/etc/resolv.conf">>) ELSE @,
        !.CommandWrapper = IF @ = "" THEN "{{.Command}}" ELSE @,
        !.MountPath = IF @ = "" THEN "/mnt/packer-azure-chroot-disks/{{.Device}}" ELSE @,
        !.MountPartition = IF @ = "" THEN "1" ELSE @,
        !.OSDiskStorageAccountType = IF @ = "" THEN "Premium_LRS" ELSE @,
        !.OSDiskCacheType = IF @ = "" THEN "ReadOnly" ELSE @,
        !.ImageHyperVGeneration = IF @ = "" THEN "V1" ELSE @]

\* Default of temporary_os_disk_id
DefaultTemporaryOSDiskID(a, vm) ==
    IF a.config.TemporaryOSDiskID # <<>> THEN a
    ELSE LET def == RenderDefaultID("disks", "PackerTemp-osdisk-", vm)
         IN  IF def.ok
             THEN [a EXCEPT !.config.TemporaryOSDiskID = def.value]
             ELSE [a EXCEPT !.errs = MultiErrorAppend(@, <<ErrRenderDiskID>>)]

\* Default of temporary_os_disk_snapshot_id
DefaultTemporaryOSDiskSnapshotID(a, vm) ==
    IF a.config.TemporaryOSDiskSnapshotID # <<>> THEN a
    ELSE LET def == RenderDefaultID("snapshots", "PackerTemp-osdisk-snapshot-", vm)
         IN  IF def.ok
             THEN [a EXCEPT !.config.TemporaryOSDiskSnapshotID = def.value]
             ELSE [a EXCEPT !.errs = MultiErrorAppend(@, <<ErrRenderSnapshotID>>)]

\* CheckFromScratch without the check of source
CheckFromScratchAllowsSource(a) ==
    LET e2 == IF a.config.OSDiskSizeGB = 0
              THEN MultiErrorAppend(a.errs, <<ErrSizeRequired>>) ELSE a.errs
        e3 == IF Len(a.config.PreMountCommands) = 0
              THEN MultiErrorAppend(e2, <<ErrPreMountRequired>>) ELSE e2
    IN  [a EXCEPT !.errs = e3]

\* The checks of a from_scratch build
CheckFromScratch(a) ==
    LET e1 == IF a.config.Source # <<>>
              THEN MultiErrorAppend(a.errs, <<ErrSourceWithFromScratch>>) ELSE a.errs
        e2 == IF a.config.OSDiskSizeGB = 0
              THEN MultiErrorAppend(e1, <<ErrSizeRequired>>) ELSE e1
        e3 == IF Len(a.config.PreMountCommands) = 0
              THEN MultiErrorAppend(e2, <<ErrPreMountRequired>>) ELSE e2
    IN  [a EXCEPT !.errs = e3]

\* Whether id parses as a resource id of Microsoft.Compute/<type>
IsComputeResource(id, type) ==
    LET r == ParseResourceID(id)
    IN  /\ r.ok
        /\ EqualFold(r.Provider, <<"Microsoft.Compute">>)
        /\ EqualFold(r.ResourceType, <<type>>)

\* ClassifySource with the provider and the type compared case-sensitively
ClassifySourceCaseSensitive(a) ==
    IF ParsePlatformImageURN(a.config.Source).ok
    THEN [a EXCEPT !.config.sourceType = sourcePlatformImage]
    ELSE IF LET r == ParseResourceID(a.config.Source)
            IN  r.ok /\ r.Provider = <<"Microsoft.Compute">> /\ r.ResourceType = <<"disks">>
    THEN [a EXCEPT !.config.sourceType = sourceDisk]
    ELSE [a EXCEPT !.errs = MultiErrorAppend(@, <<ErrSource>>)]

\* ClassifySource that lets an unrecognised source pass without an error
ClassifySourceUnreported(a) ==
    IF ParsePlatformImageURN(a.config.Source).ok
    THEN [a EXCEPT !.config.sourceType = sourcePlatformImage]
    ELSE IF IsComputeResource(a.config.Source, "disks")
    THEN [a EXCEPT !.config.sourceType = sourceDisk]
    ELSE a

\* The classification of the source of a build that is not from_scratch
ClassifySource(a) ==
    IF ParsePlatformImageURN(a.config.Source).ok
    THEN [a EXCEPT !.config.sourceType = sourcePlatformImage]
    ELSE IF IsComputeResource(a.config.Source, "disks")
    THEN [a EXCEPT !.config.sourceType = sourceDisk]
    ELSE [a EXCEPT !.errs = MultiErrorAppend(@, <<ErrSource>>)]

CheckSource(a) ==
    IF a.config.FromScratch THEN CheckFromScratch(a) ELSE ClassifySource(a)

CheckDiskCacheType(a) ==
    IF checkDiskCacheType(a.config.OSDiskCacheType) THEN a
    ELSE [a EXCEPT !.errs = MultiErrorAppend(@, <<ErrCacheType>>)]

CheckStorageAccountType(a) ==
    IF checkStorageAccountType(a.config.OSDiskStorageAccountType) THEN a
    ELSE [a EXCEPT !.errs = MultiErrorAppend(@, <<ErrStorageAccountType>>)]

\* image_resource_id: the error is passed to MultiErrorAppend as its first
\* argument and errs is not passed at all, so errs becomes a new aggregate
CheckImageResourceID(a) ==
    IF a.config.ImageResourceID = <<>> THEN a
    ELSE IF IsComputeResource(a.config.ImageResourceID, "images") THEN a
    ELSE [a EXCEPT !.errs = MultiErrorOf(ErrImageResourceID)]

\* CheckSharedImageDestination that validates nothing
CheckSharedImageDestinationUnvalidated(a, keys) == a

\* CheckSharedImageDestination that reports an invalid destination as warnings
CheckSharedImageDestinationWarnsOnly(a, keys) ==
    IF "shared_image_destination" \notin keys THEN a
    ELSE LET e == Validate(a.config.SharedImageGalleryDestination,
                           "shared_image_destination")
         IN  IF Len(e) > 0 THEN [a EXCEPT !.warns = @ \o e] ELSE a

\* The validation of a supplied shared_image_destination
CheckSharedImageDestination(a, keys) ==
    IF "shared_image_destination" \notin keys THEN a
    ELSE LET e == Validate(a.config.SharedImageGalleryDestination,
                           "shared_image_destination")
             w == ValidateWarnings(a.config.SharedImageGalleryDestination,
                                   "shared_image_destination")
         IN  [a EXCEPT !.errs = IF Len(e) > 0 THEN MultiErrorAppend(@, e) ELSE @,
                       !.warns = IF Len(w) > 0 THEN @ \o w ELSE @]

CheckOutput(a, keys) ==
    IF "shared_image_destination" \notin keys /\ a.config.ImageResourceID = <<>>
    THEN [a EXCEPT !.errs = MultiErrorAppend(@, <<ErrOutputRequired>>)]
    ELSE a

CheckHyperVGeneration(a) ==
    IF checkHyperVGeneration(a.config.ImageHyperVGeneration) THEN a
    ELSE [a EXCEPT !.errs = MultiErrorAppend(@, <<ErrHyperVGeneration>>)]

\* Prepare after a successful decode: the resolved config, errs and warns
Resolve(raw, vm) ==
    IF ~ClientSetDefaultValues(Decode(raw).ClientConfig)
    THEN Acc(Decode(raw), <<ErrClientDefaultValues>>, <<>>)
    ELSE
    LET keys == DecodedKeys(raw)
        s0 == {Acc(SetDefaults(Decode(raw)), <<>>, <<>>)}
        s1 == {DefaultTemporaryOSDiskID(a, vm) : a \in s0}
        s2 == {DefaultTemporaryOSDiskSnapshotID(a, vm) : a \in s1}
        s3 == {CheckSource(a) : a \in s2}
        s4 == {CheckDiskCacheType(a) : a \in s3}
        s5 == {CheckStorageAccountType(a) : a \in s4}
        s6 == {CheckImageResourceID(a) : a \in s5}
        s7 == {CheckSharedImageDestination(a, keys) : a \in s6}
        s8 == {CheckOutput(a, keys) : a \in s7}
        s9 == {CheckHyperVGeneration(a) : a \in s8}
    IN  CHOOSE a \in s9 : TRUE

----------------------------------------------------------------------------------------------------------------------------------------
(* buildsteps *)

\* A nil *client.PlatformImage
NilPlatformImage == [Publisher |-> "", Offer |-> "", Sku |-> "", Version |-> ""]

\* StepCreateNewDisk, zero value
ZeroStepCreateNewDisk ==
    [kind |-> "StepCreateNewDisk",
     ResourceID |-> <<>>,
     DiskSizeGB |-> 0,
     DiskStorageAccountType |-> "",
     HyperVGeneration |-> "",
     Location |-> "",
     PlatformImage |-> NilPlatformImage,
     SourceDiskResourceID |-> <<>>,
     SkipCleanup |-> FALSE]

\* SharedImageGalleryDestination.Validate("") reports no error
HasValidSharedImage(c) == Len(Validate(c.SharedImageGalleryDestination, "")) = 0

\* The early validation of the destination
DestinationSteps(c, info) ==
    IF HasValidSharedImage(c)
    THEN <<[kind |-> "StepVerifySharedImageDestination",
            Image |-> c.SharedImageGalleryDestination,
            Location |-> info.Location]>>
    ELSE <<>>

FromScratchSteps(c, info) ==
    <<[ZeroStepCreateNewDisk EXCEPT
        !.ResourceID = c.TemporaryOSDiskID,
        !.DiskSizeGB = c.OSDiskSizeGB,
        !.DiskStorageAccountType = c.OSDiskStorageAccountType,
        !.HyperVGeneration = c.ImageHyperVGeneration,
        !.Location = info.Location]>>

\* PlatformImageSteps with the version resolved after the disk is created
PlatformImageStepsResolveLast(c, info, pi) ==
    <<[ZeroStepCreateNewDisk EXCEPT
            !.ResourceID = c.TemporaryOSDiskID,
            !.DiskSizeGB = c.OSDiskSizeGB,
            !.DiskStorageAccountType = c.OSDiskStorageAccountType,
            !.HyperVGeneration = c.ImageHyperVGeneration,
            !.Location = info.Location,
            !.PlatformImage = pi,
            !.SkipCleanup = c.SkipCleanup]>>
    \o (IF EqualFold(<<pi.Version>>, <<"latest">>)
        THEN <<[kind |-> "StepResolvePlatformImageVersion",
                PlatformImage |-> pi,
                Location |-> info.Location]>>
        ELSE <<>>)

PlatformImageSteps(c, info, pi) ==
    (IF EqualFold(<<pi.Version>>, <<"latest">>)
     THEN <<[kind |-> "StepResolvePlatformImageVersion",
             PlatformImage |-> pi,
             Location |-> info.Location]>>
     ELSE <<>>)
    \o <<[ZeroStepCreateNewDisk EXCEPT
            !.ResourceID = c.TemporaryOSDiskID,
            !.DiskSizeGB = c.OSDiskSizeGB,
            !.DiskStorageAccountType = c.OSDiskStorageAccountType,
            !.HyperVGeneration = c.ImageHyperVGeneration,
            !.Location = info.Location,
            !.PlatformImage = pi,
            !.SkipCleanup = c.SkipCleanup]>>

\* SourceDiskSteps with the source disk verified after the new disk is created
SourceDiskStepsVerifyLast(c, info) ==
    <<[ZeroStepCreateNewDisk EXCEPT
        !.ResourceID = c.TemporaryOSDiskID,
        !.DiskSizeGB = c.OSDiskSizeGB,
        !.DiskStorageAccountType = c.OSDiskStorageAccountType,
        !.HyperVGeneration = c.ImageHyperVGeneration,
        !.SourceDiskResourceID = c.Source,
        !.Location = info.Location,
        !.SkipCleanup = c.SkipCleanup],
      [kind |-> "StepVerifySourceDisk",
       SourceDiskResourceID |-> c.Source,
       Location |-> info.Location]>>

\* The steps of an existing managed disk as source
SourceDiskSteps(c, info) ==
    <<[kind |-> "StepVerifySourceDisk",
       SourceDiskResourceID |-> c.Source,
       Location |-> info.Location],
      [ZeroStepCreateNewDisk EXCEPT
        !.ResourceID = c.TemporaryOSDiskID,
        !.DiskSizeGB = c.OSDiskSizeGB,
        !.DiskStorageAccountType = c.OSDiskStorageAccountType,
        !.HyperVGeneration = c.ImageHyperVGeneration,
        !.SourceDiskResourceID = c.Source,
        !.Location = info.Location,
        !.SkipCleanup = c.SkipCleanup]>>

\* The source-acquisition steps; panic when the config is not one Prepare resolved
SourceSteps(c, info) ==
    IF c.FromScratch
    THEN [panic |-> FALSE, steps |-> FromScratchSteps(c, info)]
    ELSE IF c.sourceType = sourcePlatformImage
    THEN LET p == ParsePlatformImageURN(c.Source)
         IN  IF p.ok
             THEN [panic |-> FALSE, steps |-> PlatformImageSteps(c, info, p.image)]
             ELSE [panic |-> TRUE, steps |-> <<>>]
    ELSE IF c.sourceType = sourceDisk
    THEN [panic |-> FALSE, steps |-> SourceDiskSteps(c, info)]
    ELSE [panic |-> TRUE, steps |-> <<>>]

\* ChrootSteps that leaves the early cleanup out when skip_cleanup is set
ChrootStepsSkipAware(c) ==
    <<[kind |-> "StepAttachDisk"],
      [kind |-> "StepPreMountCommands", Commands |-> c.PreMountCommands],
      [kind |-> "StepMountDevice",
       MountOptions |-> c.MountOptions,
       MountPartition |-> c.MountPartition,
       MountPath |-> c.MountPath],
      [kind |-> "StepPostMountCommands", Commands |-> c.PostMountCommands],
      [kind |-> "StepMountExtra", ChrootMounts |-> c.ChrootMounts],
      [kind |-> "StepCopyFiles", Files |-> c.CopyFiles],
      [kind |-> "StepChrootProvision"]>>
    \o (IF c.SkipCleanup THEN <<>> ELSE <<[kind |-> "StepEarlyCleanup"]>>)

\* ChrootSteps with the device mounted before the pre-mount commands run
ChrootStepsMountFirst(c) ==
    <<[kind |-> "StepAttachDisk"],
      [kind |-> "StepMountDevice",
       MountOptions |-> c.MountOptions,
       MountPartition |-> c.MountPartition,
       MountPath |-> c.MountPath],
      [kind |-> "StepPreMountCommands", Commands |-> c.PreMountCommands],
      [kind |-> "StepPostMountCommands", Commands |-> c.PostMountCommands],
      [kind |-> "StepMountExtra", ChrootMounts |-> c.ChrootMounts],
      [kind |-> "StepCopyFiles", Files |-> c.CopyFiles],
      [kind |-> "StepChrootProvision"],
      [kind |-> "StepEarlyCleanup"]>>

\* The mount and provision steps
ChrootSteps(c) ==
    <<[kind |-> "StepAttachDisk"],
      [kind |-> "StepPreMountCommands", Commands |-> c.PreMountCommands],
      [kind |-> "StepMountDevice",
       MountOptions |-> c.MountOptions,
       MountPartition |-> c.MountPartition,
       MountPath |-> c.MountPath],
      [kind |-> "StepPostMountCommands", Commands |-> c.PostMountCommands],
      [kind |-> "StepMountExtra", ChrootMounts |-> c.ChrootMounts],
      [kind |-> "StepCopyFiles", Files |-> c.CopyFiles],
      [kind |-> "StepChrootProvision"],
      [kind |-> "StepEarlyCleanup"]>>

\* ImageSteps that leaves the managed image out when a shared image is produced
ImageStepsUnlessShared(c, info) ==
    IF c.ImageResourceID # <<>> /\ ~HasValidSharedImage(c)
    THEN <<[kind |-> "StepCreateImage",
            ImageResourceID |-> c.ImageResourceID,
            ImageOSState |-> "Generalized",
            OSDiskCacheType |-> c.OSDiskCacheType,
            OSDiskStorageAccountType |-> c.OSDiskStorageAccountType,
            Location |-> info.Location]>>
    ELSE <<>>

\* The managed image output
ImageSteps(c, info) ==
    IF c.ImageResourceID # <<>>
    THEN <<[kind |-> "StepCreateImage",
            ImageResourceID |-> c.ImageResourceID,
            ImageOSState |-> "Generalized",
            OSDiskCacheType |-> c.OSDiskCacheType,
            OSDiskStorageAccountType |-> c.OSDiskStorageAccountType,
            Location |-> info.Location]>>
    ELSE <<>>

SharedImageSteps(c, info) ==
    IF HasValidSharedImage(c)
    THEN <<[kind |-> "StepCreateSnapshot",
            ResourceID |-> c.TemporaryOSDiskSnapshotID,
            Location |-> info.Location,
            SkipCleanup |-> c.SkipCleanup],
           [kind |-> "StepCreateSharedImageVersion",
            Destination |-> c.SharedImageGalleryDestination,
            OSDiskCacheType |-> c.OSDiskCacheType,
            Location |-> info.Location]>>
    ELSE <<>>

\* buildsteps with the destination verified after the source steps
buildstepsVerifyAfterSource(c, info) ==
    LET src == SourceSteps(c, info)
    IN  IF src.panic
        THEN [panic |-> TRUE, steps |-> <<>>]
        ELSE [panic |-> FALSE,
              steps |-> src.steps \o DestinationSteps(c, info) \o ChrootSteps(c)
                        \o ImageSteps(c, info) \o SharedImageSteps(c, info)]

\* buildsteps(config, info): the step list, or a panic
buildsteps(c, info) ==
    LET src == SourceSteps(c, info)
    IN  IF src.panic
        THEN [panic |-> TRUE, steps |-> <<>>]
        ELSE [panic |-> FALSE,
              steps |-> DestinationSteps(c, info) \o src.steps \o ChrootSteps(c)
                        \o ImageSteps(c, info) \o SharedImageSteps(c, info)]

----------------
(* The builder *)

NoResult == [returned |-> FALSE, artifact |-> <<>>, err |-> ""]

\* Run was not called yet
NoEnvironment == [goos |-> "", client |-> "", metadata |-> FALSE]

Init ==
    /\ pc = "new"
    /\ config = ZeroConfig
    /\ mdKeys = {}
    /\ prepErrs = <<>>
    /\ prepWarns = <<>>
    /\ steps = <<>>
    /\ stateBag = {}
    /\ runLog = <<>>
    /\ cleanupLog = <<>>
    /\ cloud = [created |-> {}, deleted |-> {}]
    /\ host = {}
    /\ result = NoResult
    /\ env = NoEnvironment
    /\ calls = <<>>

\* Prepare on an input that does not decode: the decode error alone
PrepareDecodeError ==
    /\ pc = "new"
    /\ pc' = "rejected"
    /\ prepErrs' = <<ErrDecode>>
    /\ UNCHANGED <<config, mdKeys, prepWarns, steps, stateBag, runLog, cleanupLog,
                   cloud, host, result, env, calls>>

\* Prepare on an input that decodes
Prepare ==
    /\ pc = "new"
    /\ \E raw \in RawInputs, vm \in VMMetadata :
        \E a \in {Resolve(raw, vm)} :
            /\ config' = a.config
            /\ mdKeys' = DecodedKeys(raw)
            /\ prepErrs' = a.errs
            /\ prepWarns' = a.warns
            /\ pc' = IF a.errs # <<>> THEN "rejected" ELSE "prepared"
    /\ UNCHANGED <<steps, stateBag, runLog, cleanupLog, cloud, host, result, env,
                   calls>>

\* What Run finds on the host: runtime.GOOS, whether the Azure client can be
\* set up, and whether the metadata service answers
RunEnvironments ==
    [goos : {"linux", "windows"},
     client : {"ok", "FillParameters", "New"},
     metadata : BOOLEAN]

\* The ComputeInfo the metadata client returns
ComputeInfo ==
    [Location |-> "westus2", SubscriptionID |-> "sub", ResourceGroupName |-> "vmrg",
     Name |-> "packervm"]

ErrNotLinux == "the azure-chroot builder only works on Linux environments"
ErrClientDefaults == "error setting Azure client defaults"
ErrClientCreate == "error creating Azure client"
ErrComputeInfo ==
    "Error retrieving information ARM resource ID and location"
    \o "of the VM that Packer is running on.\n"
    \o "Please verify that Packer is running on a proper Azure VM."
ErrStep == "step error"

InitialStateKeys == {"config", "hook", "ui", "azureclient", "wrappedCommand"}

Returned(artifact, err) == [returned |-> TRUE, artifact |-> artifact, err |-> err]

\* Run with the platform checked only after the Azure client is set up
RunOutcomeLatePlatformCheck(c, e) ==
    IF e.client = "FillParameters"
    THEN [pc |-> "done", bag |-> {}, steps |-> <<>>, calls |-> <<"FillParameters">>,
          result |-> Returned(<<>>, ErrClientDefaults)]
    ELSE IF e.client = "New"
    THEN [pc |-> "done", bag |-> {}, steps |-> <<>>,
          calls |-> <<"FillParameters", "client.New">>,
          result |-> Returned(<<>>, ErrClientCreate)]
    ELSE IF e.goos # "linux"
    THEN [pc |-> "done", bag |-> {}, steps |-> <<>>,
          calls |-> <<"FillParameters", "client.New">>,
          result |-> Returned(<<>>, ErrNotLinux)]
    ELSE IF ~e.metadata
    THEN [pc |-> "done", bag |-> InitialStateKeys, steps |-> <<>>,
          calls |-> <<"FillParameters", "client.New", "GetComputeInfo">>,
          result |-> Returned(<<>>, ErrComputeInfo)]
    ELSE LET b == buildsteps(c, ComputeInfo)
         IN  [pc |-> IF b.panic THEN "panic" ELSE "running",
              bag |-> InitialStateKeys \cup {"instance"},
              steps |-> b.steps,
              calls |-> <<"FillParameters", "client.New", "GetComputeInfo",
                          "buildsteps">>
                        \o (IF b.panic THEN <<>> ELSE <<"runner.Run">>),
              result |-> NoResult]

\* Run up to the start of the runner: the platform check, the client, the
\* state bag, the metadata and the step list
RunOutcome(c, e) ==
    IF e.goos # "linux"
    THEN [pc |-> "done", bag |-> {}, steps |-> <<>>, calls |-> <<>>,
          result |-> Returned(<<>>, ErrNotLinux)]
    ELSE IF e.client = "FillParameters"
    THEN [pc |-> "done", bag |-> {}, steps |-> <<>>, calls |-> <<"FillParameters">>,
          result |-> Returned(<<>>, ErrClientDefaults)]
    ELSE IF e.client = "New"
    THEN [pc |-> "done", bag |-> {}, steps |-> <<>>,
          calls |-> <<"FillParameters", "client.New">>,
          result |-> Returned(<<>>, ErrClientCreate)]
    ELSE IF ~e.metadata
    THEN [pc |-> "done", bag |-> InitialStateKeys, steps |-> <<>>,
          calls |-> <<"FillParameters", "client.New", "GetComputeInfo">>,
          result |-> Returned(<<>>, ErrComputeInfo)]
    ELSE LET b == buildsteps(c, ComputeInfo)
         IN  [pc |-> IF b.panic THEN "panic" ELSE "running",
              bag |-> InitialStateKeys \cup {"instance"},
              steps |-> b.steps,
              calls |-> <<"FillParameters", "client.New", "GetComputeInfo",
                          "buildsteps">>
                        \o (IF b.panic THEN <<>> ELSE <<"runner.Run">>),
              result |-> NoResult]

\* Run is called on a builder whose Prepare returned no error
Run ==
    /\ pc = "prepared"
    /\ \E e \in RunEnvironments :
        \E o \in {RunOutcome(config, e)} :
            /\ env' = e
            /\ pc' = o.pc
            /\ stateBag' = o.bag
            /\ steps' = o.steps
            /\ calls' = o.calls
            /\ result' = o.result
    /\ UNCHANGED <<config, mdKeys, prepErrs, prepWarns, runLog, cleanupLog, cloud, host>>

\* The cloud resource a step creates when it succeeds
Creates(step) ==
    CASE step.kind = "StepCreateNewDisk" -> {"disk"}
      [] step.kind = "StepCreateSnapshot" -> {"snapshot"}
      [] step.kind = "StepCreateImage" -> {"image"}
      [] step.kind = "StepCreateSharedImageVersion" -> {"imageversion"}
      [] OTHER -> {}

\* The cloud resource a step's Cleanup deletes: the transient one it created,
\* unless the step was built with SkipCleanup
Deletes(step) ==
    CASE step.kind = "StepCreateNewDisk" -> IF step.SkipCleanup THEN {} ELSE {"disk"}
      [] step.kind = "StepCreateSnapshot" -> IF step.SkipCleanup THEN {} ELSE {"snapshot"}
      [] OTHER -> {}

\* The steps that change the host: their Cleanup detaches or unmounts
HostSideKinds ==
    {"StepAttachDisk", "StepMountDevice", "StepMountExtra", "StepCopyFiles",
     "StepEarlyCleanup"}

\* The host-side cleanups a step's Cleanup attempts
HostCleanups(step) == IF step.kind \in HostSideKinds THEN {step.kind} ELSE {}

\* The host-side cleanups a step's Run performs: the early cleanup unmounts
\* before the image is created
EarlyCleanups(step) ==
    IF step.kind = "StepEarlyCleanup"
    THEN {"StepCopyFiles", "StepMountExtra", "StepMountDevice"}
    ELSE {}

\* The runner observes the cancellation before it starts the next step
RunnerCancel ==
    /\ pc = "running"
    /\ stateBag' = stateBag \cup {"cancelled"}
    /\ pc' = "cleanup"
    /\ UNCHANGED <<config, mdKeys, prepErrs, prepWarns, steps, runLog, cleanupLog,
                   cloud, host, result, env, calls>>

\* RunnerStep that goes on to the next step after a step halted
RunnerStepKeepsGoing ==
    /\ pc = "running"
    /\ \E n \in {Len(runLog) + 1}, action \in {"continue", "halt"} :
        /\ n <= Len(steps)
        /\ runLog' = Append(runLog, n)
        /\ pc' = IF n = Len(steps) THEN "cleanup" ELSE "running"
        /\ IF action = "continue"
           THEN /\ cloud' = [cloud EXCEPT !.created = @ \cup Creates(steps[n])]
                /\ host' = host \cup EarlyCleanups(steps[n])
                /\ stateBag' = stateBag
           ELSE /\ stateBag' = stateBag \cup {"error", "halted"}
                /\ UNCHANGED <<cloud, host>>
    /\ UNCHANGED <<config, mdKeys, prepErrs, prepWarns, steps, cleanupLog, result,
                   env, calls>>

\* The runner runs the next step, which continues or halts with an error
RunnerStep ==
    /\ pc = "running"
    /\ \E n \in {Len(runLog) + 1}, action \in {"continue", "halt"} :
        /\ n <= Len(steps)
        /\ runLog' = Append(runLog, n)
        /\ IF action = "continue"
           THEN /\ cloud' = [cloud EXCEPT !.created = @ \cup Creates(steps[n])]
                /\ host' = host \cup EarlyCleanups(steps[n])
                /\ stateBag' = stateBag
                /\ pc' = IF n = Len(steps) THEN "cleanup" ELSE "running"
           ELSE /\ stateBag' = stateBag \cup {"error", "halted"}
                /\ pc' = "cleanup"
                /\ UNCHANGED <<cloud, host>>
    /\ UNCHANGED <<config, mdKeys, prepErrs, prepWarns, steps, cleanupLog, result,
                   env, calls>>

\* The steps that completed: those that ran, without the step that halted
Completed(ran, bag) ==
    IF "halted" \in bag THEN SubSeq(ran, 1, Len(ran) - 1) ELSE ran

\* Cleanup in the order the steps ran
NextCleanupForward(ran, cleaned) == ran[Len(cleaned) + 1]

\* The step whose Cleanup is due: the last of the steps to clean up that is not
\* cleaned up yet
NextCleanup(ran, cleaned) == ran[Len(ran) - Len(cleaned)]

\* The runner calls Cleanup on the steps that completed, the last one first
RunnerCleanup ==
    /\ pc = "cleanup"
    /\ Len(cleanupLog) < Len(Completed(runLog, stateBag))
    /\ \E n \in {NextCleanup(Completed(runLog, stateBag), cleanupLog)} :
        /\ cleanupLog' = Append(cleanupLog, n)
        /\ cloud' = [cloud EXCEPT !.deleted = @ \cup Deletes(steps[n])]
        /\ host' = host \cup HostCleanups(steps[n])
    /\ UNCHANGED <<pc, config, mdKeys, prepErrs, prepWarns, steps, stateBag, runLog,
                   result, env, calls>>

\* The id of the shared image version a destination names
DestinationResourceID(d, subscription) ==
    <<"/", "subscriptions", "/", subscription, "/", "resourceGroups", "/",
      d.ResourceGroup, "/", "providers", "/", "Microsoft.Compute", "/", "galleries",
      "/", d.GalleryName, "/", "images", "/", d.ImageName, "/", "versions", "/",
      d.ImageVersion>>

\* The local list Run fills after the artifact is built
Resources(c, info) ==
    (IF c.ImageResourceID # <<>> THEN <<c.ImageResourceID>> ELSE <<>>)
    \o (IF HasValidSharedImage(c)
        THEN <<DestinationResourceID(c.SharedImageGalleryDestination,
                                     info.SubscriptionID)>>
        ELSE <<>>)

\* The artifact Run returns; the list above is not stored in it
Artifact(c, info) ==
    [BuilderIdValue |-> BuilderID, Resources |-> <<>>, StateData |-> {"generated_data"}]

\* Run after the runner returned
RunReturn ==
    /\ pc = "cleanup"
    /\ Len(cleanupLog) = Len(Completed(runLog, stateBag))
    /\ result' = IF "error" \in stateBag
                 THEN Returned(<<>>, ErrStep)
                 ELSE Returned(<<Artifact(config, ComputeInfo)>>, "")
    /\ pc' = "done"
    /\ UNCHANGED <<config, mdKeys, prepErrs, prepWarns, steps, stateBag, runLog,
                   cleanupLog, cloud, host, env, calls>>

Next ==
    \/ PrepareDecodeError
    \/ Prepare
    \/ Run
    \/ RunnerCancel
    \/ RunnerStep
    \/ RunnerCleanup
    \/ RunReturn

Spec == Init /\ [][Next]_vars

----------------------------------------------------------------------------
(* Properties *)

Range(seq) == {seq[n] : n \in DOMAIN seq}

\* Prepare returned on an input that decoded
Decoded == pc # "new" /\ prepErrs # <<ErrDecode>>

\* Prepare decoded its input, set the client defaults and went through its checks
Checked == Decoded /\ prepErrs # <<ErrClientDefaultValues>>

\* Prepare returned no error
Accepted == pc # "new" /\ prepErrs = <<>>

\* buildsteps returned and the runner was handed the step list
Built == pc \in {"running", "cleanup", "done"} /\ steps # <<>>

\* The errors of the validation rules the resolved config violates
ViolatedRules ==
    (IF config.FromScratch /\ config.Source # <<>> THEN {ErrSourceWithFromScratch} ELSE {})
    \cup (IF config.FromScratch /\ config.OSDiskSizeGB = 0 THEN {ErrSizeRequired} ELSE {})
    \cup (IF config.FromScratch /\ config.PreMountCommands = <<>>
          THEN {ErrPreMountRequired} ELSE {})
    \cup (IF /\ ~config.FromScratch
             /\ ~ParsePlatformImageURN(config.Source).ok
             /\ ~IsComputeResource(config.Source, "disks")
          THEN {ErrSource} ELSE {})
    \cup (IF config.OSDiskCacheType \notin PossibleCachingTypesValues
          THEN {ErrCacheType} ELSE {})
    \cup (IF config.OSDiskStorageAccountType \notin PossibleDiskStorageAccountTypesValues
          THEN {ErrStorageAccountType} ELSE {})
    \cup (IF config.ImageHyperVGeneration \notin PossibleHyperVGenerationValues
          THEN {ErrHyperVGeneration} ELSE {})
    \cup (IF /\ config.ImageResourceID # <<>>
             /\ ~IsComputeResource(config.ImageResourceID, "images")
          THEN {ErrImageResourceID} ELSE {})
    \cup (IF "shared_image_destination" \in mdKeys
          THEN Range(Validate(config.SharedImageGalleryDestination,
                              "shared_image_destination"))
          ELSE {})
    \cup (IF "shared_image_destination" \notin mdKeys /\ config.ImageResourceID = <<>>
          THEN {ErrOutputRequired} ELSE {})
    \cup (IF config.TemporaryOSDiskID = <<>> THEN {ErrRenderDiskID} ELSE {})
    \cup (IF config.TemporaryOSDiskSnapshotID = <<>> THEN {ErrRenderSnapshotID} ELSE {})

\* C1: for every input that decodes, the error Prepare returns holds the error
\* of every validation rule the config violates.
C1_EveryViolationReported == Checked => ViolatedRules \subseteq Range(prepErrs)

\* C2: whenever Prepare succeeds, exactly one of from_scratch and a non-empty
\* source holds; with both or with neither Prepare fails.
C2_ExactlyOneSourceMode ==
    Accepted => (config.FromScratch <=> config.Source = <<>>)

C2_Witness ==
    /\ pc = "prepared"
    /\ config.FromScratch
    /\ config.Source = <<>>

\* C3: on from_scratch = true with os_disk_size_gb = 0 Prepare fails and its
\* error holds the size-required error, whatever the other fields are.
C3_SizeRequiredReported ==
    (Checked /\ config.FromScratch /\ config.OSDiskSizeGB = 0)
        => ErrSizeRequired \in Range(prepErrs)

\* C4: a config with neither an image_resource_id nor a structurally valid
\* shared-image destination makes Prepare fail.
C4_OutputRequired ==
    (pc # "new" /\ config.ImageResourceID = <<>> /\ ~HasValidSharedImage(config))
        => prepErrs # <<>>

C4_Witness ==
    /\ pc = "rejected"
    /\ config.ImageResourceID = <<>>
    /\ "shared_image_destination" \in mdKeys
    /\ ~HasValidSharedImage(config)
    /\ ErrOutputRequired \notin Range(prepErrs)

\* C5: when from_scratch is false the source is classified as exactly one of
\* platform image, existing disk (Microsoft.Compute/disks, compared
\* case-insensitively, tried only when the platform-image parse fails) or
\* invalid; sourceType is PlatformImage or Disk in the first two cases, and in
\* the third it stays unset, an error is recorded and Prepare fails.
C5_SourceClassification ==
    (Checked /\ ~config.FromScratch) =>
        LET urn == ParsePlatformImageURN(config.Source).ok
            disk == IsComputeResource(config.Source, "disks")
            r == ClassifySource(Acc([config EXCEPT !.sourceType = ""], <<>>, <<>>))
        IN  /\ config.sourceType = r.config.sourceType
            /\ urn => (config.sourceType = sourcePlatformImage /\ r.errs = <<>>)
            /\ (~urn /\ disk) => (config.sourceType = sourceDisk /\ r.errs = <<>>)
            /\ (~urn /\ ~disk) =>
                (config.sourceType = "" /\ r.errs = <<ErrSource>> /\ prepErrs # <<>>)

C5_Witness ==
    /\ pc = "prepared"
    /\ config.Source = DiskIDFolded
    /\ config.sourceType = sourceDisk

\* Positions of the steps of a kind in a step list
IndicesOf(list, kind) == {n \in DOMAIN list : list[n].kind = kind}

\* C7: for a platform-image source whose version is "latest" (in any case, as
\* the code compares it) the step list holds a resolve-version step and every
\* such step comes before the create-disk step; for any other version the list
\* holds no resolve-version step.
C7_ResolveVersionPrecedesCreateDisk ==
    (Built /\ ~config.FromScratch /\ config.sourceType = sourcePlatformImage) =>
        LET version == ParsePlatformImageURN(config.Source).image.Version
            resolve == IndicesOf(steps, "StepResolvePlatformImageVersion")
            create == IndicesOf(steps, "StepCreateNewDisk")
        IN  /\ create # {}
            /\ IF Lower(version) = "latest"
               THEN /\ resolve # {}
                    /\ \A r \in resolve, d \in create : r < d
               ELSE resolve = {}

C7_Witness ==
    /\ Built
    /\ config.Source = UrnLatest
    /\ IndicesOf(steps, "StepResolvePlatformImageVersion") # {}

\* The sequence <<k, k - 1, ..., 1>>
Countdown(k) == [n \in 1..k |-> k - n + 1]

\* C8: when step Sk is the first to fail, Cleanup is invoked on exactly
\* S1..Sk-1, once each, in the order Sk-1, ..., S1, and on no other step; while
\* the cleanup is under way the steps cleaned up are the last ones of these.
C8_CleanupExcludesFailedStep ==
    ("halted" \in stateBag) =>
        /\ runLog = [n \in 1..Len(runLog) |-> n]
        /\ Len(cleanupLog) <= Len(runLog) - 1
        /\ cleanupLog = SubSeq(Countdown(Len(runLog) - 1), 1, Len(cleanupLog))
        /\ pc = "done" => cleanupLog = Countdown(Len(runLog) - 1)

\* The fourth step halted and the three before it were cleaned up
C8_Witness ==
    /\ pc = "done"
    /\ "halted" \in stateBag
    /\ Len(runLog) = 4
    /\ cleanupLog = <<3, 2, 1>>

\* The host-side steps of a step list, in order
HostSideSteps(list) == SelectSeq(list, LAMBDA st : st.kind \in HostSideKinds)

\* C9: the host-side steps are built the same for skip_cleanup true and false,
\* and in every finished run the host-side cleanup of every host-side step that
\* completed was attempted, whatever skip_cleanup is.
C9_HostCleanupIgnoresSkipCleanup ==
    Built =>
        /\ HostSideSteps(steps) =
            HostSideSteps(buildsteps([config EXCEPT !.SkipCleanup = ~@], ComputeInfo).steps)
        /\ \A k \in HostSideKinds : IndicesOf(steps, k) # {}
        /\ pc = "done" =>
            \A n \in Range(Completed(runLog, stateBag)) :
                steps[n].kind \in HostSideKinds => steps[n].kind \in host

C9_Witness ==
    /\ pc = "done"
    /\ config.SkipCleanup
    /\ "halted" \in stateBag
    /\ {"StepAttachDisk", "StepMountDevice"} \subseteq host

\* C10: with skip_cleanup = true every create-disk step and the create-snapshot
\* step are built with SkipCleanup = true, so no run deletes the temporary OS
\* disk or the temporary snapshot.
C10_SkipCleanupRetainsResources ==
    (Built /\ config.SkipCleanup) =>
        /\ \A n \in DOMAIN steps :
            steps[n].kind \in {"StepCreateNewDisk", "StepCreateSnapshot"}
                => steps[n].SkipCleanup
        /\ cloud.deleted = {}

\* Run returned an artifact
Succeeded == pc = "done" /\ result.returned /\ result.artifact # <<>>

\* C11: the artifact of a successful run holds the managed image id when
\* image_resource_id is set, the shared image version id when the destination
\* is valid, and nothing else
C11_ArtifactReferencesOutputs ==
    Succeeded =>
        /\ config.ImageResourceID # <<>>
            => config.ImageResourceID \in Range(result.artifact[1].Resources)
        /\ HasValidSharedImage(config)
            => DestinationResourceID(config.SharedImageGalleryDestination,
                                     ComputeInfo.SubscriptionID)
                   \in Range(result.artifact[1].Resources)
        /\ Len(result.artifact[1].Resources) = Len(Resources(config, ComputeInfo))

\* Run returned after the runner stopped
RunnerReturned == pc = "done" /\ steps # <<>>

\* C12: Run returns an artifact and no error only if every step ran and
\* returned continue; a run stopped by a failing step or by a cancellation
\* seen between two steps returns an error and no artifact
C12_ArtifactOnlyAfterFullSuccess ==
    RunnerReturned =>
        /\ (result.artifact # <<>> /\ result.err = "")
            => /\ runLog = [n \in 1..Len(steps) |-> n]
               /\ "halted" \notin stateBag
               /\ "cancelled" \notin stateBag
        /\ ("halted" \in stateBag \/ "cancelled" \in stateBag)
            => (result.artifact = <<>> /\ result.err # "")

\* Run was called on a host that is not Linux
RanOffLinux == env # NoEnvironment /\ env.goos # "linux"

\* C13: on a host that is not Linux Run fails at once with the platform error:
\* no client is set up, no metadata is fetched, the state bag stays empty, no
\* step list is built and no step runs
C13_NonLinuxFailsImmediately ==
    RanOffLinux =>
        /\ pc = "done"
        /\ result = Returned(<<>>, ErrNotLinux)
        /\ calls = <<>>
        /\ stateBag = {}
        /\ steps = <<>>
        /\ runLog = <<>>
        /\ cloud = [created |-> {}, deleted |-> {}]

\* Run refused a host on which the client and the metadata were available
C13_Witness ==
    /\ RanOffLinux
    /\ env.client = "ok"
    /\ env.metadata
    /\ result.err = ErrNotLinux

\* C14: a temporary disk id or snapshot id that stays empty means its default
\* could not be rendered, and then Prepare fails with the error naming that
\* field; Prepare never succeeds with either id empty
C14_TemporaryIDsRenderedOrReported ==
    Checked =>
        /\ config.TemporaryOSDiskID = <<>> => ErrRenderDiskID \in Range(prepErrs)
        /\ config.TemporaryOSDiskSnapshotID = <<>>
            => ErrRenderSnapshotID \in Range(prepErrs)
        /\ Accepted =>
            /\ config.TemporaryOSDiskID # <<>>
            /\ config.TemporaryOSDiskSnapshotID # <<>>

\* The kinds of step that create a cloud resource
CreatingKinds ==
    {"StepCreateNewDisk", "StepCreateImage", "StepCreateSnapshot",
     "StepCreateSharedImageVersion"}

\* The shared_image_destination key was supplied
DestinationConfigured == "shared_image_destination" \in mdKeys

\* C15: with a shared image destination configured the destination check is
\* the first step, comes before every step that creates a resource, and has
\* run before any resource exists; with none configured there is no such step
C15_DestinationVerifiedFirst ==
    Built =>
        /\ DestinationConfigured =>
            /\ IndicesOf(steps, "StepVerifySharedImageDestination") = {1}
            /\ steps[1].Image = config.SharedImageGalleryDestination
            /\ \A n \in DOMAIN steps : steps[n].kind \in CreatingKinds => n > 1
            /\ cloud.created # {} => (runLog # <<>> /\ runLog[1] = 1)
        /\ ~DestinationConfigured =>
            IndicesOf(steps, "StepVerifySharedImageDestination") = {}

\* A configured destination was checked and a resource was created after it
C15_Witness ==
    /\ Built
    /\ DestinationConfigured
    /\ steps[1].kind = "StepVerifySharedImageDestination"
    /\ cloud.created # {}

\* The mount and provision phase, in its order
UniversalKinds ==
    <<"StepAttachDisk", "StepPreMountCommands", "StepMountDevice",
      "StepPostMountCommands", "StepMountExtra", "StepCopyFiles",
      "StepChrootProvision", "StepEarlyCleanup">>

\* The kinds of step that produce an output
OutputKinds == {"StepCreateImage", "StepCreateSnapshot", "StepCreateSharedImageVersion"}

\* C16: every step list holds the mount and provision phase once, as one block
\* in the order attach, pre-mount commands, mount device, post-mount commands,
\* mount extra, copy files, chroot provision, early cleanup; a create-disk step
\* exists and comes before the attach, and every output step comes after the
\* early cleanup
C16_UniversalPhaseOrder ==
    Built =>
        \E a \in DOMAIN steps :
            /\ \A k \in DOMAIN UniversalKinds :
                IndicesOf(steps, UniversalKinds[k]) = {a + k - 1}
            /\ IndicesOf(steps, "StepCreateNewDisk") # {}
            /\ \A n \in IndicesOf(steps, "StepCreateNewDisk") : n < a
            /\ \A n \in DOMAIN steps :
                steps[n].kind \in OutputKinds => n > a + Len(UniversalKinds) - 1

\* A list with an output step was run to its end
C16_Witness ==
    /\ Built
    /\ \E n \in DOMAIN steps : steps[n].kind \in OutputKinds
    /\ Len(runLog) = Len(steps)
    /\ "halted" \notin stateBag

\* The steps that belong to one source branch only
BranchOnlyKinds == {"StepResolvePlatformImageVersion", "StepVerifySourceDisk"}

\* C17: every step list has one create-disk step: a blank disk for
\* from_scratch, a disk from the parsed platform image for a platform image
\* source, a disk from the source disk id for a managed disk source, in which
\* case the step just before it verifies that source disk; no step of another
\* branch is in the list
C17_OneSourceBranch ==
    Built =>
        \E d \in DOMAIN steps :
            /\ IndicesOf(steps, "StepCreateNewDisk") = {d}
            /\ steps[d].ResourceID = config.TemporaryOSDiskID
            /\ IF config.FromScratch
               THEN /\ steps[d].PlatformImage = NilPlatformImage
                    /\ steps[d].SourceDiskResourceID = <<>>
                    /\ \A n \in DOMAIN steps : steps[n].kind \notin BranchOnlyKinds
               ELSE IF config.sourceType = sourcePlatformImage
               THEN /\ steps[d].PlatformImage = ParsePlatformImageURN(config.Source).image
                    /\ steps[d].PlatformImage # NilPlatformImage
                    /\ steps[d].SourceDiskResourceID = <<>>
                    /\ IndicesOf(steps, "StepVerifySourceDisk") = {}
               ELSE /\ config.sourceType = sourceDisk
                    /\ steps[d].SourceDiskResourceID = config.Source
                    /\ steps[d].PlatformImage = NilPlatformImage
                    /\ IndicesOf(steps, "StepVerifySourceDisk") = {d - 1}
                    /\ steps[d - 1].SourceDiskResourceID = config.Source
                    /\ IndicesOf(steps, "StepResolvePlatformImageVersion") = {}

\* The list of a managed disk source was built
C17_Witness ==
    /\ Built
    /\ ~config.FromScratch
    /\ config.sourceType = sourceDisk
    /\ IndicesOf(steps, "StepVerifySourceDisk") # {}

\* C18: the list has a create-image step exactly when image_resource_id is
\* set; it has a create-snapshot step directly followed by a
\* create-shared-image-version step exactly when the destination is valid;
\* with both outputs the create-image step comes before the snapshot
C18_OutputPhaseMatchesConfig ==
    Built =>
        /\ Cardinality(IndicesOf(steps, "StepCreateImage"))
               = IF config.ImageResourceID # <<>> THEN 1 ELSE 0
        /\ Cardinality(IndicesOf(steps, "StepCreateSnapshot"))
               = IF HasValidSharedImage(config) THEN 1 ELSE 0
        /\ IndicesOf(steps, "StepCreateSharedImageVersion")
               = {n + 1 : n \in IndicesOf(steps, "StepCreateSnapshot")}
        /\ \A i \in IndicesOf(steps, "StepCreateImage") :
            /\ steps[i].ImageResourceID = config.ImageResourceID
            /\ \A j \in IndicesOf(steps, "StepCreateSnapshot") : i < j
        /\ \A j \in IndicesOf(steps, "StepCreateSharedImageVersion") :
            steps[j].Destination = config.SharedImageGalleryDestination

\* A list with both outputs was built
C18_Witness ==
    /\ Built
    /\ config.ImageResourceID # <<>>
    /\ HasValidSharedImage(config)
    /\ IndicesOf(steps, "StepCreateImage") # {}
    /\ IndicesOf(steps, "StepCreateSharedImageVersion") # {}

\* C19: buildsteps never panics on a configuration Prepare accepted: unless
\* from_scratch is set the source type is platform image or disk, a platform
\* image source parses again, and no run ends in a panic
C19_FatalBranchesUnreachable ==
    /\ pc # "panic"
    /\ Accepted =>
        /\ ~buildsteps(config, ComputeInfo).panic
        /\ ~config.FromScratch =>
            /\ config.sourceType \in {sourcePlatformImage, sourceDisk}
            /\ config.sourceType = sourcePlatformImage
                => ParsePlatformImageURN(config.Source).ok

\* buildsteps built the list of a platform image source
C19_Witness ==
    /\ pc = "running"
    /\ ~config.FromScratch
    /\ config.sourceType = sourcePlatformImage
    /\ steps # <<>>

\* The runner saw a step halt or the run cancelled
Stopped == "halted" \in stateBag \/ "cancelled" \in stateBag

\* C20: a step starts only as the next one of the list, while the runner is
\* running and no earlier step halted; once a step halted or the cancellation
\* was seen, no further step runs
C20_SequentialFailFast ==
    [][/\ runLog' # runLog =>
            /\ pc = "running"
            /\ ~Stopped
            /\ "error" \notin stateBag
            /\ runLog' = Append(runLog, Len(runLog) + 1)
            /\ Len(runLog') <= Len(steps)
       /\ Stopped => runLog' = runLog]_vars

\* A step in the middle of the list halted and the steps after it did not run
C20_Witness ==
    /\ pc = "done"
    /\ "halted" \in stateBag
    /\ Len(runLog) > 1
    /\ Len(runLog) < Len(steps)

\* The output steps of a step list
OutputSteps(list) == {n \in DOMAIN list : list[n].kind \in OutputKinds}

\* C21: for a configuration Prepare accepted, the destination key was supplied
\* exactly when the destination validates, and the step list built from it
\* holds at least one output step
C21_AcceptedConfigHasOutput ==
    /\ Accepted =>
        /\ DestinationConfigured <=> HasValidSharedImage(config)
        /\ OutputSteps(buildsteps(config, ComputeInfo).steps) # {}
    /\ Built => OutputSteps(steps) # {}

\* The list of a configuration whose only output is the supplied destination
C21_Witness ==
    /\ Built
    /\ DestinationConfigured
    /\ config.ImageResourceID = <<>>
    /\ OutputSteps(steps) = IndicesOf(steps, "StepCreateSnapshot")
                            \cup IndicesOf(steps, "StepCreateSharedImageVersion")
    /\ OutputSteps(steps) # {}

====
